---- MODULE Spec2Model ----
(***************************************************************************)
(* Model of pycacher (src/main.py): PycacheEntry, one cached value with    *)
(* its identity, timing and declared type, and Pycache, a dict from        *)
(* snowflake id to PycacheEntry.                                           *)
(*                                                                         *)
(* Python values are records [cls, n, bad, gen]:                           *)
(*   cls  the runtime class of the value                                   *)
(*   n    the payload: the number of an int, the length of a str, the      *)
(*        count of a counter object, the "by" key of a patch dict          *)
(*   bad  the "fail" key of a patch dict (FALSE for everything else)       *)
(*   gen  object identity: how many times the object was rebuilt from its  *)
(*        serialized form (0 for the object the client constructed)        *)
(***************************************************************************)
EXTENDS Integers, Sequences, FiniteSets, TLC

\* ------------------------------------------------------------------ bounds
MaxTime  == 1     \* update passes a fetched_time in 1..MaxTime
MaxCount == 1     \* a counter object's count stays within 0..MaxCount
MaxGen   == 1     \* an object is rebuilt from serialize() at most MaxGen times
MaxNow   == 2     \* the clock runs from 0 to MaxNow milliseconds

\* max_age = None (the record never expires)
None == -1

\* the snowflake ids clients use, and the fetched times they pass to update
Ids      == {1, 2}
Times    == 1..MaxTime

\* ---------------------------------------------------------- python values
\* the types PycacheEntry.is_immutable and PycacheEntry.update recognise
ImmutableTypes == {"int", "str", "float", "complex", "bool", "tuple", "frozenset"}

\* client classes of mutable values, by the capabilities they expose
ClientClasses ==
    {"Counter", "VarCounter", "NoUpdate", "AttrUpdate", "NoSerialize",
     "AttrSerialize"}

Val(c, k)   == [cls |-> c, n |-> k, bad |-> FALSE, gen |-> 0]
NoneVal     == Val("NoneType", 0)
IntV(k)     == Val("int", k)
StrV(k)     == Val("str", k)
Patch(k, f) == [cls |-> "dict", n |-> k, bad |-> f, gen |-> 0]
BoolV(k)    == Val("bool", k)

\* bool(value): numbers are false when zero, strings when empty, None always;
\* a non-empty dict and an object without __bool__/__len__ are true
Truthy(v) ==
    CASE v.cls \in {"int", "float", "bool", "str"} -> v.n # 0
      [] v.cls = "NoneType" -> FALSE
      [] OTHER -> TRUE

\* the `update` attribute of a value's class:
\*   "none"  no attribute          "attr"  an attribute that is not callable
\*   "call1" update(self, data)    "callN" update(self, data, *rest)
UpdateAttr(c) ==
    CASE c \in {"Counter", "NoSerialize", "AttrSerialize"} -> "call1"
      [] c = "VarCounter" -> "callN"
      [] c = "AttrUpdate" -> "attr"
      [] c = "dict" -> "call1"
      [] OTHER -> "none"

\* the `serialize` attribute of a value's class: "none", "attr" (not
\* callable) or "call"
SerializeAttr(c) ==
    CASE c \in {"Counter", "VarCounter", "NoUpdate", "AttrUpdate"} -> "call"
      [] c = "AttrSerialize" -> "attr"
      [] OTHER -> "none"

\* one capability invocation: method, its first argument, number of arguments
Call(m, a, k) == [m |-> m, arg |-> a, nargs |-> k]

\* outcome of an operation: a returned value or a raised error
Ok(v)    == [ok |-> TRUE,  val |-> v,       err |-> "none"]
Raise(e) == [ok |-> FALSE, val |-> NoneVal, err |-> e]

\* ------------------------------------------------------------ PycacheEntry
\* PycacheEntry with the snowflake and the fetched time taken for each other
PycacheEntry_swapped(snowflake, entry, fetched_time, max_age, entry_instance) ==
    [idx            |-> fetched_time,
     value          |-> entry,
     fetched_time   |-> snowflake,
     max_age        |-> max_age,
     value_instance |-> entry_instance]

PycacheEntry(snowflake, entry, fetched_time, max_age, entry_instance) ==
    [idx            |-> snowflake,
     value          |-> entry,
     fetched_time   |-> fetched_time,
     max_age        |-> max_age,
     value_instance |-> entry_instance]

NoEntry == PycacheEntry(0, NoneVal, 0, None, "NoneType")

is_immutable(e) == e.value_instance \in ImmutableTypes

\* is_stale with the age compared by >= : stale already when the age equals
\* max_age
is_stale_inclusive(e, t) ==
    IF e.max_age = 0 \/ e.max_age = None
    THEN FALSE
    ELSE (t - e.fetched_time) >= e.max_age

\* is_stale without the test for a max_age of 0 or None
is_stale_unguarded(e, t) == (t - e.fetched_time) > e.max_age

\* PycacheEntry.is_stale(), t the clock math.floor(time.time() * 1000)
is_stale(e, t) ==
    IF e.max_age = 0 \/ e.max_age = None
    THEN FALSE
    ELSE IF (t - e.fetched_time) > e.max_age
    THEN TRUE
    ELSE FALSE

\* isinstance(entry, str) or isinstance(entry, int) or ...
IsScalar(v) == v.cls \in ImmutableTypes

\* hasattr_update with the test dropped: every value is taken to have the
\* attribute
hasattr_update_always(v) == TRUE

\* hasattr(self.value, 'update') and callable(getattr(self.value, 'update', None))
hasattr_update(v)  == UpdateAttr(v.cls) # "none"
callable_update(v) == UpdateAttr(v.cls) \in {"call1", "callN"}

\* hasattr(self.value, 'serialize') and callable(getattr(self.value, 'serialize', None))
hasattr_serialize(v)  == SerializeAttr(v.cls) # "none"
callable_serialize(v) == SerializeAttr(v.cls) = "call"

\* self.value.serialize() of a counter object: its count, as plain data
ValueSerialize(v) == IntV(v.n)

\* self._value_instance(data): a new object of the declared class built from
\* serialized data; g is the identity of the new object
Construct(c, data, g) == [cls |-> c, n |-> data.n, bad |-> FALSE, gen |-> g]

\* self.value.update(data) of a counter object:
\*     self.count += data["by"]
\*     if data["fail"]: raise ValueError
\*     return self.count
\* data that is not a dict fails on data["by"] before anything is changed
ValueUpdate(v, data) ==
    IF data.cls = "dict"
    THEN [value  |-> [v EXCEPT !.n = v.n + data.n],
          raised |-> data.bad,
          err    |-> IF data.bad THEN "UpdateFailed" ELSE "none",
          ret    |-> IF data.bad THEN NoneVal ELSE IntV(v.n + data.n)]
    ELSE [value |-> v, raised |-> TRUE, err |-> "PyTypeError", ret |-> NoneVal]

\* PycacheEntry.serialize
PycacheEntry_serialize(e) ==
    IF is_immutable(e)
    THEN [out |-> Ok(e.value), calls |-> <<>>]
    ELSE IF hasattr_serialize(e.value)
    THEN IF callable_serialize(e.value)
         THEN [out |-> Ok(ValueSerialize(e.value)),
               calls |-> <<Call("serialize", NoneVal, 0)>>]
         ELSE [out |-> Raise("NotSerializable"), calls |-> <<>>]
    ELSE [out |-> Raise("NoSerializeMethod"), calls |-> <<>>]

\* Replace with the fetched time left as it was
Replace_value_only(e, fetched_time, entry) == [e EXCEPT !.value = entry]

\* setattr(self, 'value', entry); setattr(self, '_fetched_time', fetched_time)
Replace(e, fetched_time, entry) ==
    [e EXCEPT !.value = entry, !.fetched_time = fetched_time]

\* Rollback with the restore forgotten: the entry keeps the object the failed
\* update left behind
RollbackSkipped(e, clone) == e

\* except Exception as e: setattr(self, 'value', clone)
Rollback(e, clone) == [e EXCEPT !.value = clone]

\* the try block: res = self.value.update(entry) changes the stored object in
\* place, also when it raises; then either the fetched time is set and res
\* returned, or the clone is restored and the exception raised again
TryUpdate(e, fetched_time, entry, clone, calls) ==
    LET u  == ValueUpdate(e.value, entry)
        e1 == [e EXCEPT !.value = u.value]
        c  == calls \o <<Call("update", entry, 1)>>
    IN  IF u.raised
        THEN [entry |-> Rollback(e1, clone), out |-> Raise(u.err), calls |-> c]
        ELSE [entry |-> [e1 EXCEPT !.fetched_time = fetched_time],
              out |-> Ok(u.ret), calls |-> c]

\* PycacheEntry.update with the snapshot taken after the stored value's
\* update: a failing serialize is met only once the value has been changed
PycacheEntry_update_late_snapshot(e, fetched_time, entry) ==
    IF is_immutable(e) \/ IsScalar(entry)
    THEN [entry |-> Replace(e, fetched_time, entry), out |-> Ok(NoneVal),
          calls |-> <<>>]
    ELSE IF ~hasattr_update(e.value)
    THEN [entry |-> e, out |-> Raise("NoUpdateMethod"), calls |-> <<>>]
    ELSE IF ~callable_update(e.value)
    THEN [entry |-> e, out |-> Raise("NotUpdatable"), calls |-> <<>>]
    ELSE LET u  == ValueUpdate(e.value, entry)
             e1 == [e EXCEPT !.value = u.value]
             s  == PycacheEntry_serialize(e1)
             c  == <<Call("update", entry, 1)>> \o s.calls
         IN  IF ~s.out.ok
             THEN [entry |-> e1, out |-> s.out, calls |-> c]
             ELSE IF u.raised
             THEN [entry |-> e, out |-> Raise(u.err), calls |-> c]
             ELSE [entry |-> [e1 EXCEPT !.fetched_time = fetched_time],
                   out |-> Ok(u.ret), calls |-> c]

\* PycacheEntry.update(fetched_time, entry)
PycacheEntry_update(e, fetched_time, entry) ==
    IF is_immutable(e)
    THEN [entry |-> Replace(e, fetched_time, entry), out |-> Ok(NoneVal),
          calls |-> <<>>]
    ELSE IF IsScalar(entry)
    THEN [entry |-> Replace(e, fetched_time, entry), out |-> Ok(NoneVal),
          calls |-> <<>>]
    ELSE IF hasattr_update(e.value)
    THEN IF callable_update(e.value)
         THEN LET s == PycacheEntry_serialize(e)
              IN  IF ~s.out.ok
                  THEN [entry |-> e, out |-> s.out, calls |-> s.calls]
                  ELSE TryUpdate(e, fetched_time, entry,
                                 Construct(e.value_instance, s.out.val,
                                           e.value.gen + 1),
                                 s.calls \o <<Call("construct", s.out.val, 1)>>)
         ELSE [entry |-> e, out |-> Raise("NotUpdatable"), calls |-> <<>>]
    ELSE [entry |-> e, out |-> Raise("NoUpdateMethod"), calls |-> <<>>]

\* ----------------------------------------------------------------- Pycache
\* the dict self._cache: a function from the ids it holds to their entries
EmptyCache == [k \in {} |-> NoEntry]

\* self._cache.update([(idx, e)])
Put(c, idx, e) == [k \in DOMAIN c \cup {idx} |-> IF k = idx THEN e ELSE c[k]]

\* self._cache.pop(idx)
Pop(c, idx) == [k \in DOMAIN c \ {idx} |-> c[k]]

\* Found testing the stored value instead of the entry, as add and remove do
\* with the result of get
FoundTruthy(c, idx) == idx \in DOMAIN c /\ Truthy(c[idx].value)

\* `if self._cache.get(idx)`: dict.get gives None for a missing key and the
\* PycacheEntry otherwise; a PycacheEntry has no __bool__ or __len__
Found(c, idx) == idx \in DOMAIN c

\* get answering None for a missing key, as dict.get does, instead of raising
Pycache_get_or_none(c, idx) ==
    IF idx \in DOMAIN c THEN Ok(c[idx].value) ELSE Ok(NoneVal)

\* Pycache.get(idx)
Pycache_get(c, idx) ==
    IF Found(c, idx) THEN Ok(c[idx].value) ELSE Raise("NotFound")

\* Pycache.add(snowflake, entry, fetched_time, max_age, entry_instance),
\* res the PycacheEntry it constructs first
Pycache_add(c, res) ==
    LET g == Pycache_get(c, res.idx)
    IN  IF ~g.ok
        THEN [cache |-> c, out |-> g]
        ELSE IF ~Truthy(g.val)
        THEN \* the entry is stored; `self.get(res.idx).value` then reads the
             \* attribute `value` of the raw value, which none of the
             \* modelled classes has
             [cache |-> Put(c, res.idx, res), out |-> Raise("PyAttributeError")]
        ELSE [cache |-> c, out |-> Raise("DuplicateKey")]

\* Pycache.update(idx, entry, fetched_time): self.get(idx) is the raw value,
\* and its own update is called with two arguments
Pycache_update(c, idx, entry, fetched_time) ==
    LET g == Pycache_get(c, idx)
    IN  IF ~g.ok
        THEN [cache |-> c, out |-> g, calls |-> <<>>]
        ELSE CASE UpdateAttr(g.val.cls) = "none" ->
                    [cache |-> c, out |-> Raise("PyAttributeError"), calls |-> <<>>]
               [] UpdateAttr(g.val.cls) = "attr" ->
                    [cache |-> c, out |-> Raise("PyTypeError"), calls |-> <<>>]
               [] UpdateAttr(g.val.cls) = "call1" ->
                    [cache |-> c, out |-> Raise("PyTypeError"), calls |-> <<>>]
               [] UpdateAttr(g.val.cls) = "callN" ->
                    LET u == ValueUpdate(g.val, entry)
                    IN  [cache |-> [c EXCEPT ![idx].value = u.value],
                         out   |-> IF u.raised THEN Raise(u.err) ELSE Ok(u.ret),
                         calls |-> <<Call("update", entry, 2)>>]

\* the argument of remove: a pyflake Snowflake (kind "handle", attribute
\* snowflake = id), the id as an int or as a str, or a float
RemoveArgs ==
    {[kind |-> k, id |-> i] : k \in {"handle", "int", "str"}, i \in Ids}
        \cup {[kind |-> "float", id |-> 1]}

\* the dict key an argument of remove looks up: the keys are ints, a str
\* equals none of them
LookupKey(a) == IF a.kind = "str" THEN 0 ELSE a.id

\* `if self.get(k): self._cache.pop(k)`
PopIfTruthy(c, k) ==
    LET g == Pycache_get(c, k)
    IN  IF ~g.ok THEN [cache |-> c, out |-> g]
        ELSE [cache |-> IF Truthy(g.val) THEN Pop(c, k) ELSE c,
              out   |-> Raise("BadIdentifierType")]

\* Pycache.remove(snowflake): the TypeError of its last line is raised
\* whenever control reaches it
Pycache_remove(c, a) ==
    IF a.kind = "handle"
    THEN PopIfTruthy(c, LookupKey(a))
    ELSE IF a.kind \in {"str", "int"}
    THEN PopIfTruthy(c, LookupKey(a))
    ELSE [cache |-> c, out |-> Raise("BadIdentifierType")]

\* Pycache.setdefault(prop, val) with val a PycacheEntry the client built
Pycache_setdefault(c, prop, val) ==
    IF prop \in DOMAIN c
    THEN [cache |-> c, out |-> Ok(c[prop].value)]
    ELSE [cache |-> Put(c, prop, val), out |-> Ok(val.value)]

\* Pycache.clear()
Pycache_clear(c) == [cache |-> EmptyCache, out |-> Ok(NoneVal)]

\* isinstance(v, c): bool is a subclass of int
IsInstance(v, c) == v.cls = c \/ (c = "int" /\ v.cls = "bool")

\* the conditions the views of Pycache pass to find: the nested functions of
\* stale, fresh, mutable, immutable, str, int, complex, bool, frozenset,
\* float and tuple
Conditions ==
    {"is_stale", "is_fresh", "is_mutable", "is_immutable", "is_str", "is_int",
     "is_complex", "is_bool", "is_frozenset", "is_float", "is_tuple"}

\* the type a by-type condition tests the stored value for
TypeOf(p) ==
    CASE p = "is_str" -> "str"
      [] p = "is_int" -> "int"
      [] p = "is_complex" -> "complex"
      [] p = "is_bool" -> "bool"
      [] p = "is_frozenset" -> "frozenset"
      [] p = "is_float" -> "float"
      [] p = "is_tuple" -> "tuple"

\* Condition with is_fresh testing the age itself, without the rule that a
\* max_age of 0 or None never expires
Condition_fresh_by_age(p, e, t) ==
    CASE p = "is_stale" -> is_stale(e, t)
      [] p = "is_fresh" -> (t - e.fetched_time) <= e.max_age
      [] p = "is_mutable" -> ~is_immutable(e)
      [] p = "is_immutable" -> is_immutable(e)
      [] OTHER -> IsInstance(e.value, TypeOf(p))

\* condition(entry), evaluated at clock t
Condition(p, e, t) ==
    CASE p = "is_stale" -> is_stale(e, t)
      [] p = "is_fresh" -> ~is_stale(e, t)
      [] p = "is_mutable" -> ~is_immutable(e)
      [] p = "is_immutable" -> is_immutable(e)
      [] OTHER -> IsInstance(e.value, TypeOf(p))

\* the dict find builds: res.update([(idx, entry.value)]) for every item
\* whose condition is True
Matches(c, p, t) ==
    LET m == {k \in DOMAIN c : Condition(p, c[k], t) = TRUE}
    IN  [k \in m |-> c[k].value]

\* find that starts a new dict at every match, so that only the last match
\* is returned
Pycache_find_single(c, p, t) ==
    LET res  == Matches(c, p, t)
        keep == {k \in DOMAIN res : \A j \in DOMAIN res : j <= k}
    IN  IF Cardinality(DOMAIN res) > 0
        THEN [cache |-> c, found |-> [k \in keep |-> res[k]], out |-> Ok(NoneVal)]
        ELSE [cache |-> c, found |-> res, out |-> Raise("NoMatches")]

\* find that drops the stale entries it meets from the dict
Pycache_find_evicting(c, p, t) ==
    LET res  == Matches(c, p, t)
        kept == {k \in DOMAIN c : ~is_stale(c[k], t)}
    IN  [cache |-> [k \in kept |-> c[k]], found |-> res,
         out |-> IF Cardinality(DOMAIN res) > 0
                 THEN Ok(NoneVal) ELSE Raise("NoMatches")]

\* Pycache.find(condition) at clock t: the dict it returns is `found`
Pycache_find(c, p, t) ==
    LET res == Matches(c, p, t)
    IN  IF Cardinality(DOMAIN res) > 0
        THEN [cache |-> c, found |-> res, out |-> Ok(NoneVal)]
        ELSE [cache |-> c, found |-> res, out |-> Raise("NoMatches")]

\* Pycache.stale() and Pycache.fresh()
Pycache_stale(c, t) == Pycache_find(c, "is_stale", t)
Pycache_fresh(c, t) == Pycache_find(c, "is_fresh", t)

\* ------------------------------------------------------------------ inputs
\* what a client stores: <<value, declared type, max_age>>; an int 0 and a
\* str of length 5 that never expire, and one fresh object of every client
\* class with a max_age of 1
Samples ==
    {<<IntV(0), "int", None>>, <<StrV(5), "str", 0>>, <<BoolV(1), "bool", 1>>}
        \cup {<<Val(c, 0), c, 1>> : c \in ClientClasses}

\* the samples that differ in max_age or kind, for the runs with a clock
TimedSamples ==
    {<<IntV(0), "int", None>>, <<StrV(5), "str", 0>>, <<BoolV(1), "bool", 1>>,
     <<Val("Counter", 0), "Counter", 1>>}

\* the conditions about age and kind, for the runs with a clock
TimedConditions == {"is_stale", "is_fresh", "is_immutable"}

\* the fetched_time a client constructs its entries with
FirstTimes == {0}

\* new data a client passes to update
NewData == {IntV(1), Patch(1, FALSE), Patch(1, TRUE)}

\* counts and identities stay within the bounds
InBounds(c) ==
    \A k \in DOMAIN c :
        c[k].value.cls \in ClientClasses =>
            c[k].value.n <= MaxCount /\ c[k].value.gen <= MaxGen

\* ------------------------------------------------------------------- state
\* cache  the dict of the Pycache
\* pre    the dict as it was before the last operation
\* last   the last operation: its name, arguments (ft is the clock at the call
\*        for find and is_stale), outcome, the
\*        capability invocations it made, and the dict a find returned
\* now    the clock, in milliseconds
VARIABLES cache, pre, last, now

vars == <<cache, pre, last, now>>

\* the dict of a find that found nothing, and of every other operation
NoneFound == [k \in {} |-> NoneVal]

Op(op, idx, kind, val, ft, ent, out, calls) ==
    [op |-> op, idx |-> idx, kind |-> kind, val |-> val, ft |-> ft,
     ent |-> ent, out |-> out, calls |-> calls, found |-> NoneFound]

Init ==
    /\ cache = EmptyCache
    /\ pre = EmptyCache
    /\ last = Op("init", 0, "none", NoneVal, 0, NoEntry, Ok(NoneVal), <<>>)
    /\ now = 0

\* setdefault with one of the samples S
setdefaultOf(S) ==
    \E i \in Ids, s \in S, t \in FirstTimes :
        LET e == PycacheEntry(i, s[1], t, s[3], s[2])
            r == Pycache_setdefault(cache, i, e)
        IN  /\ cache' = r.cache
            /\ pre' = cache
            /\ last' = Op("setdefault", i, "handle", s[1], t, e, r.out, <<>>)
            /\ now' = now

setdefault == setdefaultOf(Samples)

setdefault_timed == setdefaultOf(TimedSamples)

add ==
    \E i \in Ids, s \in Samples, t \in FirstTimes :
        LET e == PycacheEntry(i, s[1], t, s[3], s[2])
            r == Pycache_add(cache, e)
        IN  /\ cache' = r.cache
            /\ pre' = cache
            /\ last' = Op("add", i, "handle", s[1], t, e, r.out, <<>>)
            /\ now' = now

get ==
    \E i \in Ids :
        /\ cache' = cache
        /\ pre' = cache
        /\ last' = Op("get", i, "int", NoneVal, 0, NoEntry,
                      Pycache_get(cache, i), <<>>)
        /\ now' = now

update ==
    \E i \in Ids, d \in NewData, t \in Times :
        LET r == Pycache_update(cache, i, d, t)
        IN  /\ InBounds(r.cache)
            /\ cache' = r.cache
            /\ pre' = cache
            /\ last' = Op("update", i, "int", d, t, NoEntry, r.out, r.calls)
            /\ now' = now

\* PycacheEntry.update called on the entry stored under i
entry_update ==
    \E i \in DOMAIN cache, d \in NewData, t \in Times :
        LET r == PycacheEntry_update(cache[i], t, d)
        IN  /\ InBounds(Put(cache, i, r.entry))
            /\ cache' = Put(cache, i, r.entry)
            /\ pre' = cache
            /\ last' = Op("entry_update", i, "int", d, t, NoEntry, r.out, r.calls)
            /\ now' = now

\* PycacheEntry.is_stale called on the entry stored under i; last.ft is the
\* clock at the call
entry_is_stale ==
    \E i \in DOMAIN cache :
        /\ cache' = cache
        /\ pre' = cache
        /\ last' = Op("is_stale", i, "int", NoneVal, now, NoEntry,
                      Ok(BoolV(IF is_stale(cache[i], now) THEN 1 ELSE 0)), <<>>)
        /\ now' = now

remove ==
    \E a \in RemoveArgs :
        LET r == Pycache_remove(cache, a)
        IN  /\ cache' = r.cache
            /\ pre' = cache
            /\ last' = Op("remove", LookupKey(a), a.kind, NoneVal, 0, NoEntry,
                          r.out, <<>>)
            /\ now' = now

clear ==
    LET r == Pycache_clear(cache)
    IN  /\ cache' = r.cache
        /\ pre' = cache
        /\ last' = Op("clear", 0, "none", NoneVal, 0, NoEntry, r.out, <<>>)
        /\ now' = now

\* find with one of the conditions P; stale(), fresh() and the other views
\* are find with their condition; last.ft is the clock at the call
findOf(P) ==
    \E p \in P :
        LET r == Pycache_find(cache, p, now)
        IN  /\ cache' = r.cache
            /\ pre' = cache
            /\ last' = [Op("find", 0, p, NoneVal, now, NoEntry, r.out, <<>>)
                           EXCEPT !.found = r.found]
            /\ now' = now

find == findOf(Conditions)

find_timed == findOf(TimedConditions)

\* a millisecond passes
tick ==
    /\ now < MaxNow
    /\ now' = now + 1
    /\ UNCHANGED <<cache, pre, last>>

\* the operations at one instant
Next ==
    \/ setdefault
    \/ add
    \/ get
    \/ update
    \/ entry_update
    \/ remove
    \/ clear
    \/ find

Spec == Init /\ [][Next]_vars

\* the operations that read or keep entries, with the clock running
NextClock ==
    \/ tick
    \/ setdefault_timed
    \/ get
    \/ update
    \/ entry_update
    \/ entry_is_stale
    \/ remove
    \/ clear
    \/ find_timed

SpecClock == Init /\ [][NextClock]_vars

\* ------------------------------------------------------------------ claims
\* the entry the last operation addressed, before and after it
Before == pre[last.idx]
After  == cache[last.idx]

\* the last operation was an update, through the container or on the entry,
\* of an entry that was present
Updated ==
    /\ last.op \in {"update", "entry_update"}
    /\ last.idx \in DOMAIN pre
    /\ last.idx \in DOMAIN cache

\* the stored value's own update was invoked by the last operation
UpdateInvoked == \E k \in DOMAIN last.calls : last.calls[k].m = "update"

\* C1: add of an identifier that is not in the cache succeeds and returns the
\* value passed in, a following get returns that value, the length grows by
\* one and no other entry changes.
C1_AddAbsent ==
    (last.op = "add" /\ last.idx \notin DOMAIN pre) =>
        /\ last.out = Ok(last.val)
        /\ Pycache_get(cache, last.idx) = Ok(last.val)
        /\ Cardinality(DOMAIN cache) = Cardinality(DOMAIN pre) + 1
        /\ \A k \in DOMAIN pre : k \in DOMAIN cache /\ cache[k] = pre[k]

\* C2: add of an identifier that is already in the cache fails with
\* DuplicateKey, whatever value its entry holds, and leaves the container
\* exactly as it was.
C2_AddDuplicate ==
    (last.op = "add" /\ last.idx \in DOMAIN pre) =>
        /\ last.out = Raise("DuplicateKey")
        /\ cache = pre

\* C3: when PycacheEntry.update is called on a mutable entry with non-scalar
\* data and the stored value's update raises, the entry serializes to the
\* same data as before, fetched_time is unchanged and the caller receives
\* the failure the value's update raised.
C3_RollbackOnFailure ==
    (/\ last.op = "entry_update"
     /\ ~is_immutable(Before)
     /\ ~IsScalar(last.val)
     /\ UpdateInvoked
     /\ ValueUpdate(Before.value, last.val).raised) =>
        /\ PycacheEntry_serialize(After).out = PycacheEntry_serialize(Before).out
        /\ After.fetched_time = Before.fetched_time
        /\ last.out = Raise(ValueUpdate(Before.value, last.val).err)

C3_Witness ==
    /\ last.op = "entry_update"
    /\ UpdateInvoked
    /\ last.out = Raise("UpdateFailed")
    /\ After.value.gen = Before.value.gen + 1
    /\ After.value.n = Before.value.n

\* C4: Pycache.update of a present identifier does what PycacheEntry.update
\* does on its entry with the same new data and fetched time, and returns
\* or raises what it does; of an absent identifier it fails with NotFound.
C4_UpdateDelegates ==
    (last.op = "update") =>
        IF last.idx \in DOMAIN pre
        THEN LET r == PycacheEntry_update(Before, last.ft, last.val)
             IN  /\ last.out = r.out
                 /\ cache = Put(pre, last.idx, r.entry)
        ELSE last.out = Raise("NotFound")

\* C5: update of an immutable-kind entry succeeds for any new data, invokes
\* no capability of a value, and leaves the entry with the new data as its
\* value and the new fetched time.
C5_ImmutableUpdate ==
    (Updated /\ is_immutable(Before)) =>
        /\ last.out.ok
        /\ last.calls = <<>>
        /\ After.value = last.val
        /\ After.fetched_time = last.ft

\* C6: PycacheEntry.update of a mutable entry with non-scalar data, whose
\* value has no update attribute or one that is not callable, fails with
\* NoUpdateMethod or NotUpdatable respectively and leaves the entry (and the
\* container) unchanged.
C6_NoUsableUpdate ==
    (/\ last.op = "entry_update"
     /\ ~is_immutable(Before)
     /\ ~IsScalar(last.val)
     /\ UpdateAttr(Before.value.cls) \in {"none", "attr"}) =>
        /\ last.out = Raise(IF UpdateAttr(Before.value.cls) = "none"
                            THEN "NoUpdateMethod" ELSE "NotUpdatable")
        /\ cache = pre

C6_Witness ==
    /\ last.op = "entry_update"
    /\ last.out = Raise("NoUpdateMethod")
    /\ ~IsScalar(last.val)
    /\ Before.value.cls = "NoUpdate"

\* C7: when update of a mutable entry with non-scalar data invokes the
\* stored value's update and it completes, the call returns what it
\* returned, it was invoked exactly once, with the new data alone, and the
\* entry's fetched_time is the new fetched time.
C7_MutableUpdateSucceeds ==
    (/\ Updated
     /\ ~is_immutable(Before)
     /\ ~IsScalar(last.val)
     /\ UpdateInvoked
     /\ ~ValueUpdate(Before.value, last.val).raised) =>
        /\ last.out = Ok(ValueUpdate(Before.value, last.val).ret)
        /\ Cardinality({k \in DOMAIN last.calls : last.calls[k].m = "update"}) = 1
        /\ \A k \in DOMAIN last.calls :
               last.calls[k].m = "update" =>
                   last.calls[k].arg = last.val /\ last.calls[k].nargs = 1
        /\ After.fetched_time = last.ft

\* C8: remove of a raw identifier or handle of a present entry completes
\* without an error and removes exactly that entry.
C8_RemovePresent ==
    (/\ last.op = "remove"
     /\ last.kind \in {"handle", "int"}
     /\ last.idx \in DOMAIN pre) =>
        /\ last.out.ok
        /\ cache = Pop(pre, last.idx)

\* C9: remove fails with BadIdentifierType if and only if its argument is
\* neither a raw identifier (int, str) nor a handle, and then the container
\* is unchanged.
C9_BadIdentifierType ==
    (last.op = "remove") =>
        /\ (last.out = Raise("BadIdentifierType"))
               <=> (last.kind \notin {"handle", "int", "str"})
        /\ (last.kind \notin {"handle", "int", "str"}) => cache = pre

\* C10: get returns the value of the entry stored under the identifier
\* whenever there is one, whatever the value, fails with NotFound exactly
\* when there is none, and changes nothing.
C10_Get ==
    (last.op = "get") =>
        /\ (last.idx \in DOMAIN pre => last.out = Ok(Before.value))
        /\ (last.idx \notin DOMAIN pre => last.out = Raise("NotFound"))
        /\ cache = pre

C10_Witness ==
    /\ last.op = "get"
    /\ last.idx \in DOMAIN pre
    /\ last.out = Ok(Before.value)
    /\ ~Truthy(Before.value)

\* the identifiers of the entries of c for which condition p holds at t
Holding(c, p, t) == {k \in DOMAIN c : Condition(p, c[k], t)}

\* C11: find returns a mapping whose keys are exactly the identifiers of the
\* entries the condition holds for, each with that entry's value; it fails
\* with NoMatches exactly when there is none; it changes nothing.
C11_Find ==
    (last.op = "find") =>
        LET m == Holding(pre, last.kind, last.ft)
        IN  /\ (m # {}) => /\ last.out.ok
                           /\ DOMAIN last.found = m
                           /\ \A k \in m : last.found[k] = pre[k].value
            /\ (m = {}) => last.out = Raise("NoMatches")
            /\ cache = pre

C11_Witness ==
    /\ last.op = "find"
    /\ last.out.ok
    /\ Cardinality(DOMAIN last.found) = 2
    /\ last.kind = "is_mutable"

C11_WitnessNone ==
    /\ last.op = "find"
    /\ last.out = Raise("NoMatches")
    /\ DOMAIN pre # {}

\* the identifiers stale() and fresh() return now, none when they fail
StaleIds == DOMAIN Pycache_stale(cache, now).found
FreshIds == DOMAIN Pycache_fresh(cache, now).found

\* C12: at any instant the identifiers of stale() and of fresh() are
\* disjoint and together are the keys of the container.
C12_StaleFreshPartition ==
    /\ StaleIds \cap FreshIds = {}
    /\ StaleIds \cup FreshIds = DOMAIN cache

C12_Witness ==
    /\ last.op = "find"
    /\ last.kind = "is_stale"
    /\ last.ft = now
    /\ DOMAIN last.found = StaleIds
    /\ StaleIds # {}
    /\ FreshIds # {}

\* is_stale() of e at t is what the threshold says
AtThreshold(e, t, b) == b = ((t - e.fetched_time) > e.max_age)

C13_Threshold ==
    /\ \A k \in DOMAIN cache :
           cache[k].max_age > 0 =>
               AtThreshold(cache[k], now, is_stale(cache[k], now))
    /\ (last.op = "is_stale" /\ Before.max_age > 0) =>
           /\ last.out.ok
           /\ AtThreshold(Before, last.ft, last.out.val = BoolV(1))

C13_StaysStale ==
    \A k \in DOMAIN cache \cap DOMAIN cache' :
        (/\ cache'[k] = cache[k]
         /\ cache[k].max_age > 0
         /\ now' >= now
         /\ is_stale(cache[k], now)) => is_stale(cache'[k], now')

C13_WitnessEqual ==
    /\ last.op = "is_stale"
    /\ Before.max_age > 0
    /\ last.out = Ok(BoolV(0))
    /\ last.ft - Before.fetched_time = Before.max_age

\* C14: an entry whose max_age is 0 or None is never stale, whatever the
\* clock and its fetched_time are, and is never in stale().
C14_NeverExpires ==
    /\ \A k \in DOMAIN cache :
           cache[k].max_age \in {0, None} =>
               ~is_stale(cache[k], now) /\ k \notin StaleIds
    /\ (last.op = "is_stale" /\ Before.max_age \in {0, None}) =>
           last.out = Ok(BoolV(0))

C14_Witness ==
    /\ last.op = "is_stale"
    /\ Before.max_age = 0
    /\ last.ft > Before.fetched_time
    /\ last.out = Ok(BoolV(0))

\* the last operation was an update of a mutable value that failed and was
\* rolled back
RolledBack == last.op = "entry_update" /\ UpdateInvoked /\ ~last.out.ok

\* C15: an operation that ends in a failure, other than a rolled-back
\* update of a mutable value, leaves the container and every entry as they
\* were; an operation that changed them did not fail.
C15_FailureChangesNothing ==
    (~last.out.ok /\ ~RolledBack) => cache = pre

\* C16: remove of a raw identifier or handle for which there is no entry
\* fails with NotFound and leaves the container unchanged.
C16_RemoveAbsent ==
    (/\ last.op = "remove"
     /\ last.kind \in {"handle", "int", "str"}
     /\ last.idx \notin DOMAIN pre) =>
        /\ last.out = Raise("NotFound")
        /\ cache = pre

C16_Witness ==
    /\ last.op = "remove"
    /\ last.kind = "handle"
    /\ last.idx \notin DOMAIN pre
    /\ DOMAIN pre # {}
    /\ last.out = Raise("NotFound")

\* the conditions of the views by type
TypeConditions ==
    {"is_str", "is_int", "is_complex", "is_bool", "is_frozenset", "is_float",
     "is_tuple"}

\* C17: a view by type returns exactly the entries whose value has that
\* very type; the view of the ints holds no entry whose value is a bool.
C17_ExactTypeViews ==
    /\ (last.op = "find" /\ last.kind \in TypeConditions) =>
           DOMAIN last.found =
               {k \in DOMAIN pre : pre[k].value.cls = TypeOf(last.kind)}
    /\ Holding(cache, "is_int", now) \cap Holding(cache, "is_bool", now) = {}

\* C18: an entry is never dropped because of its age: whatever operation or
\* passing of time follows, other than a remove or a clear, every entry of
\* the container is still there and get still succeeds with its value.
C18_Kept ==
    (now' # now \/ last'.op \notin {"remove", "clear"}) =>
        \A k \in DOMAIN cache :
            /\ k \in DOMAIN cache'
            /\ Pycache_get(cache', k) = Ok(cache'[k].value)

C18_NoEviction == [][C18_Kept]_vars

C18_Witness ==
    /\ last.op = "find"
    /\ last.kind = "is_stale"
    /\ last.out.ok
    /\ DOMAIN last.found \subseteq DOMAIN cache
    /\ \E k \in DOMAIN last.found :
           is_stale(cache[k], now) /\ Pycache_get(cache, k) = Ok(cache[k].value)

C20_KeyIsIdx ==
    /\ \A k \in DOMAIN cache : cache[k].idx = k
    /\ \A j, k \in DOMAIN cache : cache[j].idx = cache[k].idx => j = k

C20_Witness ==
    /\ last.op = "add"
    /\ cache # pre
    /\ Cardinality(DOMAIN cache) = 2
    /\ cache[last.idx] = last.ent

\* PycacheEntry.update was called on a mutable entry with new data that is
\* not scalar, and the stored value has a callable update but no callable
\* serialize
UpdateWithoutSerialize ==
    /\ last.op = "entry_update"
    /\ ~is_immutable(Before)
    /\ last.val.cls \notin ImmutableTypes
    /\ UpdateAttr(Before.value.cls) \in {"call1", "callN"}
    /\ SerializeAttr(Before.value.cls) # "call"

\* C21: the snapshot is taken before the stored value's update is invoked:
\* an update of a mutable entry with non-scalar new data whose stored value
\* has a callable update but no callable serialize fails with the error of
\* serialize, never invokes the stored value's update, and leaves the
\* entry's value and fetched time unchanged.
C21_SnapshotBeforeUpdate ==
    UpdateWithoutSerialize =>
        /\ last.out = IF SerializeAttr(Before.value.cls) = "attr"
                      THEN Raise("NotSerializable")
                      ELSE Raise("NoSerializeMethod")
        /\ ~UpdateInvoked
        /\ last.calls = <<>>
        /\ After.value = Before.value
        /\ After.fetched_time = Before.fetched_time
        /\ cache = pre

C21_Witness ==
    /\ UpdateWithoutSerialize
    /\ Before.value.cls = "NoSerialize"
    /\ last.val = Patch(1, FALSE)
    /\ last.out = Raise("NoSerializeMethod")

C21_WitnessNotCallable ==
    /\ UpdateWithoutSerialize
    /\ Before.value.cls = "AttrSerialize"
    /\ last.val = Patch(1, FALSE)
    /\ last.out = Raise("NotSerializable")
====
